---- MODULE Spec2Model ----
(***************************************************************************)
(* pytimelog: the start/stop command handlers and the refresh callback of  *)
(* TimeLogApp (src/src/pytimelog/ui.py) over the persisted entry log.      *)
(*                                                                         *)
(* Instants are whole seconds on the UTC time line (local_now drops the    *)
(* microseconds; to_utc of an aware datetime keeps the instant).  An       *)
(* optional instant is a sequence: <<>> is None, <<t>> is the instant t.   *)
(* A text is a sequence of one-character strings.                          *)
(***************************************************************************)
EXTENDS Integers, Sequences, FiniteSets, TLC

VARIABLES
    store,       \* the persisted entry sequence (what read_entries returns)
    entries,     \* self.entries, the list the views render from
    pending,     \* number of refresh callbacks queued by root.after
    clock,       \* the instant local_now() returns when read
    entry_text,  \* content of the self.entry_text input widget
    command,     \* the handler that ran in the last step, "none" if none did
    dialog,      \* the messagebox that handler showed, or "none"
    calls,       \* the storage calls that handler made, in order
    refresh_now, \* `now` of the last refresh, the instant the views were drawn for
    zone,        \* the local time zone of the process
    atomic,      \* whether a command runs without interleaving of another actor
    actors       \* the position of each actor inside an interleaved start_entry

\* the surroundings the single-writer handlers leave alone
env == <<zone, atomic, actors>>

vars == <<store, entries, pending, clock, entry_text, command, dialog, calls,
          refresh_now, env>>

----------------------------------------------------------------------------
(* Bounds of the model *)

MaxEntries == 2     \* accepted starts per behaviour
MaxTick == 1        \* clock readings are multiples of half a minute
MaxSlot == 3        \* the views are drawn at multiples of six hours
MaxListed == 2      \* entries in a log the views are drawn from
MaxHours == 2       \* whole hours of the durations that are formatted

Minute == 60        \* timedelta(minutes=1), in seconds
Hour == 3600        \* the 3600 of format_duration, in seconds
Day == 86400        \* timedelta(days=1), in seconds
TargetHours == 8    \* timedelta(hours=8)

Whitespace == {" "}

\* the instants the clock may show, in any order (the clock is not monotonic)
ClockReadings == {(Minute \div 2) * k : k \in 0..MaxTick}

\* what the user may have typed into the input widget
Inputs ==
    { <<>>,
      <<" ">>,
      <<"a">>,
      <<" ", "a", " ">>,
      <<"b", " ", "b">> }

----------------------------------------------------------------------------
(* Python built-ins used by the handlers *)

RECURSIVE lstrip(_)
lstrip(s) ==
    IF s # <<>> /\ Head(s) \in Whitespace THEN lstrip(Tail(s)) ELSE s

RECURSIVE rstrip(_)
rstrip(s) ==
    IF s # <<>> /\ s[Len(s)] \in Whitespace
    THEN rstrip(SubSeq(s, 1, Len(s) - 1))
    ELSE s

\* strip that forgets the trailing whitespace
strip_left_only(s) == lstrip(s)

strip(s) == rstrip(lstrip(s))

----------------------------------------------------------------------------
(* storage: Entry and the store operations *)

Entry(s, e, t) == [start |-> s, end |-> e, text |-> t]

read_entries == store

append_entry(e) == store' = Append(store, e)

write_entries(es) == store' = es

find_open(es) ==
    IF \E i \in 1..Len(es) : es[i].end = <<>>
    THEN CHOOSE i \in 1..Len(es) :
            /\ es[i].end = <<>>
            /\ \A j \in 1..(i - 1) : es[j].end # <<>>
    ELSE 0

----------------------------------------------------------------------------
(* TimeLogApp *)

\* a zone whose UTC offset is `before` up to the instant `change` and `after`
\* from it on
Zone(before, change, after) ==
    [before |-> before, change |-> change, after |-> after]

UTC == Zone(0, 0, 0)

Actors == {1, 2}

\* no actor is inside a command
AllIdle == [a \in Actors |-> [pc |-> "idle", es |-> <<>>]]

\* the application right after __init__, which ends in a first refresh
Started(s, z, alone) ==
    /\ store = s
    /\ entries = s
    /\ pending = 1
    /\ refresh_now = clock
    /\ entry_text = <<>>
    /\ command = "__init__"
    /\ dialog = "none"
    /\ calls = <<"read_entries">>
    /\ zone = z
    /\ atomic = alone
    /\ actors = AllIdle

Init ==
    /\ clock \in ClockReadings
    /\ Started(<<>>, UTC, TRUE)

\* refresh that draws the views again without reading the store
refresh_without_read ==
    /\ entries' = entries
    /\ refresh_now' = clock
    /\ pending' = pending + 1

\* refresh, called at the end of an accepted command: reload the cached list
\* from the store as the command left it and queue one more callback
refresh ==
    /\ entries' = store'
    /\ refresh_now' = clock
    /\ pending' = pending + 1

\* the description check left out
never_blank(text) == FALSE

\* `not text`
is_blank(text) == text = <<>>

\* the open-entry check left out
never_running(es) == FALSE

\* `find_open(entries) is not None` in start_entry
already_running(es) == find_open(es) # 0

\* start_entry with the `return` after the "already running" warning missing
start_entry_no_return ==
    LET text == strip(entry_text) IN
    /\ command' = "start_entry"
    /\ IF is_blank(text) THEN
          /\ dialog' = "Please enter a description."
          /\ calls' = <<>>
          /\ UNCHANGED <<store, entries, pending, clock, entry_text, refresh_now, env>>
       ELSE
          /\ Len(store) < MaxEntries
          /\ append_entry(Entry(clock, <<>>, text))
          /\ entry_text' = <<>>
          /\ refresh
          /\ dialog' = IF already_running(read_entries)
                       THEN "An entry is already running."
                       ELSE "none"
          /\ calls' = <<"read_entries", "append_entry", "read_entries">>
          /\ UNCHANGED <<clock, env>>

start_entry ==
    LET text == strip(entry_text) IN
    /\ command' = "start_entry"
    /\ IF is_blank(text) THEN
          /\ dialog' = "Please enter a description."
          /\ calls' = <<>>
          /\ UNCHANGED <<store, entries, pending, clock, entry_text, refresh_now, env>>
       ELSE IF already_running(read_entries) THEN
          /\ dialog' = "An entry is already running."
          /\ calls' = <<"read_entries">>
          /\ UNCHANGED <<store, entries, pending, clock, entry_text, refresh_now, env>>
       ELSE
          /\ Len(store) < MaxEntries
          /\ append_entry(Entry(clock, <<>>, text))
          /\ entry_text' = <<>>
          /\ refresh
          /\ dialog' = "none"
          /\ calls' = <<"read_entries", "append_entry", "read_entries">>
          /\ UNCHANGED <<clock, env>>

\* the coercion applied to every reading: max(now, start + 1 minute)
stop_instant_max(now, start) ==
    IF now <= start + Minute THEN start + Minute ELSE now

\* the coercion by one second instead of one minute
stop_instant_second(now, start) ==
    IF now <= start THEN start + 1 ELSE now

\* the coercion with `<` for `<=`
stop_instant_strict(now, start) ==
    IF now < start THEN start + Minute ELSE now

\* the instant written as end: a reading at or before the start is replaced
stop_instant(now, start) ==
    IF now <= start THEN start + Minute ELSE now

\* the closed entry built without the text of the open one
closed_entry_blank(open_entry, now) ==
    Entry(open_entry.start, <<now>>, <<>>)

\* Entry(start=open_entry.start, end=now, text=open_entry.text)
closed_entry(open_entry, now) ==
    Entry(open_entry.start, <<now>>, open_entry.text)

\* the list handed to write_entries holding the closed entry alone
replace_at_only(es, idx, e) == <<e>>

\* entries[idx] = e
replace_at(es, idx, e) == [es EXCEPT ![idx] = e]

\* stop_entry writing the list back before it looks at idx
stop_entry_write_first ==
    LET es == read_entries
        idx == find_open(es)
    IN
    /\ command' = "stop_entry"
    /\ IF idx = 0 THEN
          /\ write_entries(es)
          /\ dialog' = "No active entry to stop."
          /\ calls' = <<"read_entries", "write_entries">>
          /\ UNCHANGED <<entries, pending, clock, entry_text, refresh_now, env>>
       ELSE
          LET open_entry == es[idx]
              now == stop_instant(clock, open_entry.start)
          IN
          /\ write_entries(replace_at(es, idx, closed_entry(open_entry, now)))
          /\ refresh
          /\ dialog' = "none"
          /\ calls' = <<"read_entries", "write_entries", "read_entries">>
          /\ UNCHANGED <<clock, entry_text, env>>

stop_entry ==
    LET es == read_entries
        idx == find_open(es)
    IN
    /\ command' = "stop_entry"
    /\ IF idx = 0 THEN
          /\ dialog' = "No active entry to stop."
          /\ calls' = <<"read_entries">>
          /\ UNCHANGED <<store, entries, pending, clock, entry_text, refresh_now, env>>
       ELSE
          LET open_entry == es[idx]
              now == stop_instant(clock, open_entry.start)
          IN
          /\ write_entries(replace_at(es, idx, closed_entry(open_entry, now)))
          /\ refresh
          /\ dialog' = "none"
          /\ calls' = <<"read_entries", "write_entries", "read_entries">>
          /\ UNCHANGED <<clock, entry_text, env>>

\* a queued refresh callback fires: it reloads the list and queues the next
timer_refresh ==
    /\ pending > 0
    /\ command' = "refresh"
    /\ entries' = read_entries
    /\ pending' = (pending - 1) + 1
    /\ dialog' = "none"
    /\ calls' = <<"read_entries">>
    /\ refresh_now' = clock
    /\ UNCHANGED <<store, clock, entry_text, env>>

\* the user edits the input widget
type_text ==
    /\ \E t \in Inputs : entry_text' = t
    /\ command' = "none"
    /\ dialog' = "none"
    /\ calls' = <<>>
    /\ UNCHANGED <<store, entries, pending, clock, refresh_now, env>>

\* the system clock shows another instant, later or earlier
clock_set(readings) ==
    /\ \E t \in readings : clock' = t
    /\ command' = "none"
    /\ dialog' = "none"
    /\ calls' = <<>>
    /\ UNCHANGED <<store, entries, pending, entry_text, refresh_now, env>>

clock_change == clock_set(ClockReadings)

Next ==
    \/ start_entry
    \/ stop_entry
    \/ timer_refresh
    \/ type_text
    \/ clock_change

Spec == Init /\ [][Next]_vars

----------------------------------------------------------------------------
(* The views: what refresh draws from self.entries and its `now` *)

Max(a, b) == IF a >= b THEN a ELSE b

Min(a, b) == IF a <= b THEN a ELSE b

Digit(n) == <<"0", "1", "2", "3", "4", "5", "6", "7", "8", "9">>[n + 1]

\* str of a natural number
RECURSIVE Decimal(_)
Decimal(n) ==
    IF n < 10 THEN <<Digit(n)>> ELSE Decimal(n \div 10) \o <<Digit(n % 10)>>

\* the format {n}: a minus sign in front of a negative number
Plain(n) == IF n < 0 THEN <<"-">> \o Decimal(0 - n) ELSE Decimal(n)

\* the format {n:02d}: at least two characters, filled with zeros
Pad2(n) ==
    IF n < 0 THEN <<"-">> \o Decimal(0 - n)
    ELSE IF n < 10 THEN <<"0">> \o Decimal(n)
    ELSE Decimal(n)

\* format_duration with the minutes rounded to the nearest
format_duration_rounded(delta) ==
    LET total_seconds == delta
        hours == total_seconds \div Hour
        remainder == total_seconds % Hour
        minutes == (remainder + 30) \div 60
    IN Plain(hours) \o <<"h">> \o Pad2(minutes) \o <<"m">>

\* divmod floors, as \div and % do for a positive divisor
format_duration(delta) ==
    LET total_seconds == delta
        hours == total_seconds \div Hour
        remainder == total_seconds % Hour
        minutes == remainder \div 60
    IN Plain(hours) \o <<"h">> \o Pad2(minutes) \o <<"m">>

format_hhmm(delta) ==
    LET total_minutes == delta \div 60
        hours == total_minutes \div 60
        minutes == total_minutes % 60
    IN Pad2(hours) \o <<":">> \o Pad2(minutes)

\* Entry.duration(now) = (end or now) - start
end_or(entry, now) == IF entry.end = <<>> THEN now ELSE entry.end[1]

duration(entry, now) == end_or(entry, now) - entry.start

\* the UTC offset of the zone in force at the instant t
utcoffset(z, t) == IF t < z.change THEN z.before ELSE z.after

\* the window taken as the UTC day of now, the local offset ignored
today_window_utc_day(now, z) ==
    LET today == now \div Day
    IN <<today * Day, (today + 1) * Day>>

\* now.astimezone().tzinfo is a fixed offset, the one in force at now; both
\* midnights are converted to UTC with it
today_window(now, z) ==
    LET tzinfo == utcoffset(z, now)
        today == (now + tzinfo) \div Day
        start_local == today * Day - tzinfo
        end_local == (today + 1) * Day - tzinfo
    IN <<start_local, end_local>>

\* one pass of the loop of render_summary with the `continue` test left out
clipped_no_skip(entry, now, window) ==
    LET entry_end == end_or(entry, now)
        latest_start == Max(entry.start, window[1])
        earliest_end == Min(entry_end, window[2])
    IN earliest_end - latest_start

\* one pass of the loop of render_summary: what the entry adds to total
clipped(entry, now, window) ==
    LET entry_end == end_or(entry, now)
        latest_start == Max(entry.start, window[1])
        earliest_end == Min(entry_end, window[2])
    IN IF earliest_end <= latest_start THEN 0
       ELSE earliest_end - latest_start

\* the loop of render_summary with `break` for `continue`
RECURSIVE daily_total_break(_, _, _)
daily_total_break(es, now, window) ==
    IF es = <<>> THEN 0
    ELSE IF clipped(Head(es), now, window) = 0 THEN 0
    ELSE clipped(Head(es), now, window)
            + daily_total_break(Tail(es), now, window)

\* the loop of render_summary: total over self.entries in list order
RECURSIVE daily_total(_, _, _)
daily_total(es, now, window) ==
    IF es = <<>> THEN 0
    ELSE clipped(Head(es), now, window) + daily_total(Tail(es), now, window)

\* remaining without the clamp
remaining_unclamped(total) == TargetHours * Hour - total

\* target - total, replaced by zero when negative
remaining(total) ==
    LET target == TargetHours * Hour
        left == target - total
    IN IF left < 0 THEN 0 ELSE left

\* the text of summary_label: "Today: {0} worked, {1} remaining to 08:00"
render_summary(es, now, z) ==
    LET total == daily_total(es, now, today_window(now, z))
    IN <<format_hhmm(total), format_hhmm(remaining(total))>>

\* the text of status_label
render_status(es, now) ==
    LET idx == find_open(es) IN
    IF idx = 0 THEN <<"idle">>
    ELSE <<"running", es[idx].text, format_duration(duration(es[idx], now))>>

\* strftime("%H:%M") of the instant t in the fixed offset tzinfo
strftime_hhmm(t, tzinfo) ==
    LET local == (t + tzinfo) % Day
    IN Pad2(local \div Hour) \o <<":">> \o Pad2((local % Hour) \div 60)

format_entry_line(entry, now, tzinfo) ==
    <<strftime_hhmm(entry.start, tzinfo),
      IF entry.end = <<>> THEN <<"...">>
                          ELSE strftime_hhmm(end_or(entry, now), tzinfo),
      format_duration(duration(entry, now)),
      entry.text>>

\* the entries render_today lists, in list order
shown_today(es, now, z) ==
    LET window == today_window(now, z)
    IN SelectSeq(es, LAMBDA entry :
            ~(entry.start >= window[2] \/ end_or(entry, now) <= window[1]))

\* the lines of the listbox
render_today(es, now, z) ==
    LET today == shown_today(es, now, z)
    IN [i \in 1..Len(today) |->
            format_entry_line(today[i], now, utcoffset(z, now))]

\* the widgets as the last refresh left them
status_label == render_status(entries, refresh_now)

summary_label == render_summary(entries, refresh_now, zone)

listbox == render_today(entries, refresh_now, zone)

----------------------------------------------------------------------------
(* The views over a log that already holds entries: the application starts *)
(* on it and refreshes while the clock moves.                              *)

RenderTimes == {6 * Hour * k : k \in 0..MaxSlot}

\* entries as the commands leave them: an end, when present, after the start
LoggedEntries ==
    {Entry(s, <<>>, <<"a">>) : s \in RenderTimes}
    \cup {Entry(s, <<e>>, <<"a">>) : s \in RenderTimes,
                                    e \in {t \in RenderTimes : t > 0}}

\* logs as the commands leave them: at most one entry open
Logs ==
    {es \in UNION {[1..n -> LoggedEntries] : n \in 0..MaxListed} :
        /\ \A i \in 1..Len(es) :
              es[i].end # <<>> => es[i].end[1] > es[i].start
        /\ \A i, j \in 1..Len(es) :
              (es[i].end = <<>> /\ es[j].end = <<>>) => i = j}

\* UTC, a zone twelve hours ahead, and a zone that goes from one hour ahead
\* to two hours ahead at 01:00 UTC (02:00 local) of the first day
Zones == {UTC, Zone(12 * Hour, 0, 12 * Hour), Zone(Hour, Hour, 2 * Hour)}

InitRender ==
    /\ clock \in RenderTimes
    /\ \E es \in Logs : \E z \in Zones : Started(es, z, TRUE)

clock_turn == clock_set(RenderTimes)

NextRender ==
    \/ timer_refresh
    \/ clock_turn

SpecRender == InitRender /\ [][NextRender]_vars

----------------------------------------------------------------------------
(* The views over one running entry started at instant 0, refreshed at     *)
(* instants of the same UTC day: both formatters get the elapsed time.     *)

Durations ==
    {h * Hour + m * 60 + sec :
        h \in 0..MaxHours, m \in {0, 1, 59}, sec \in {0, 1, 59}}
    \cup {10 * Hour - 1, 10 * Hour, Day - 1}

InitFormat ==
    /\ clock \in Durations
    /\ Started(<<Entry(0, <<>>, <<"a">>)>>, UTC, TRUE)

clock_run == clock_set(Durations)

NextFormat ==
    \/ timer_refresh
    \/ clock_run

SpecFormat == InitFormat /\ [][NextFormat]_vars

----------------------------------------------------------------------------
(* Two actors on one store.  Each runs start_entry with a description      *)
(* typed; when `atomic` is false the read, the find_open test and the      *)
(* append of one actor are separate steps that the other may interleave.   *)

ActorText(a) == <<"a">>

AtPc(a, pc, es) == [actors EXCEPT ![a] = [pc |-> pc, es |-> es]]

\* entries = read_entries()
race_read(a) ==
    /\ ~atomic
    /\ actors[a].pc = "idle"
    /\ actors' = AtPc(a, "read", read_entries)
    /\ command' = "start_entry"
    /\ dialog' = "none"
    /\ calls' = <<"read_entries">>
    /\ UNCHANGED <<store, entries, pending, clock, entry_text, refresh_now,
                   zone, atomic>>

\* if find_open(entries) is not None: warn and return
race_check(a) ==
    /\ ~atomic
    /\ actors[a].pc = "read"
    /\ command' = "start_entry"
    /\ calls' = <<>>
    /\ IF already_running(actors[a].es) THEN
          /\ dialog' = "An entry is already running."
          /\ actors' = AtPc(a, "idle", <<>>)
       ELSE
          /\ dialog' = "none"
          /\ actors' = AtPc(a, "append", actors[a].es)
    /\ UNCHANGED <<store, entries, pending, clock, entry_text, refresh_now,
                   zone, atomic>>

\* append_entry(Entry(start=now, end=None, text=text)); refresh()
race_append(a) ==
    /\ ~atomic
    /\ actors[a].pc = "append"
    /\ Len(store) < MaxEntries
    /\ append_entry(Entry(clock, <<>>, ActorText(a)))
    /\ refresh
    /\ actors' = AtPc(a, "idle", <<>>)
    /\ command' = "start_entry"
    /\ dialog' = "none"
    /\ calls' = <<"append_entry", "read_entries">>
    /\ UNCHANGED <<clock, entry_text, zone, atomic>>

\* the whole of start_entry in one step
race_start(a) ==
    /\ atomic
    /\ actors[a].pc = "idle"
    /\ command' = "start_entry"
    /\ IF already_running(read_entries) THEN
          /\ dialog' = "An entry is already running."
          /\ calls' = <<"read_entries">>
          /\ UNCHANGED <<store, entries, pending, refresh_now>>
       ELSE
          /\ Len(store) < MaxEntries
          /\ append_entry(Entry(clock, <<>>, ActorText(a)))
          /\ refresh
          /\ dialog' = "none"
          /\ calls' = <<"read_entries", "append_entry", "read_entries">>
    /\ UNCHANGED <<clock, entry_text, env>>

InitRace ==
    /\ clock \in ClockReadings
    /\ \E alone \in BOOLEAN : Started(<<>>, UTC, alone)

NextRace ==
    \/ \E a \in Actors : race_read(a)
    \/ \E a \in Actors : race_check(a)
    \/ \E a \in Actors : race_append(a)
    \/ \E a \in Actors : race_start(a)
    \/ stop_entry
    \/ clock_change

SpecRace == InitRace /\ [][NextRace]_vars

----------------------------------------------------------------------------
(* Shape of the state *)

IsOpen(e) == e.end = <<>>

OpenIndices(es) == {i \in 1..Len(es) : IsOpen(es[i])}

AcceptedStart == command = "start_entry" /\ dialog = "none"

AcceptedStop == command = "stop_entry" /\ dialog = "none"

Rejected == dialog # "none"

Range(q) == {q[i] : i \in 1..Len(q)}

HasEnd(e) == e.end # <<>>

\* t is raw without its leading and trailing whitespace
IsStripped(t, raw) ==
    \E a \in 0..Len(raw) : \E b \in 0..(Len(raw) - a) :
        /\ \A i \in 1..a : raw[i] \in Whitespace
        /\ \A i \in (Len(raw) - b + 1)..Len(raw) : raw[i] \in Whitespace
        /\ t = SubSeq(raw, a + 1, Len(raw) - b)
        /\ t # <<>> => (t[1] \notin Whitespace /\ t[Len(t)] \notin Whitespace)

\* raw holds nothing but whitespace
IsBlankInput(raw) == \A i \in 1..Len(raw) : raw[i] \in Whitespace

----------------------------------------------------------------------------
(* Claims *)

\* C1: in every state reached from the empty store by start and stop
\* commands, at most one persisted entry has no end.
C1_SingleOpen == Cardinality(OpenIndices(store)) <= 1

\* a start was refused because the entry opened after an earlier stop runs
C1_Witness ==
    /\ command = "start_entry"
    /\ dialog = "An entry is already running."
    /\ Len(store) >= 2
    /\ Cardinality(OpenIndices(store)) = 1

\* C2 as stated: every accepted stop writes end = max(now, start + 1 minute).
C2_EndIsMax ==
    [][ (command' = "stop_entry" /\ dialog' = "none") =>
          LET i == find_open(store)
              s == store[i].start
          IN store'[i].end =
                <<IF clock >= s + Minute THEN clock ELSE s + Minute>> ]_vars

\* C2 amended: an accepted stop writes end = now when now is after the
\* start, and start + 1 minute when now is at or before the start.
C2_EndIsNowOrCoerced ==
    [][ (command' = "stop_entry" /\ dialog' = "none") =>
          LET i == find_open(store)
              s == store[i].start
          IN /\ i # 0
             /\ clock > s => store'[i].end = <<clock>>
             /\ clock <= s => store'[i].end = <<s + Minute>> ]_vars

\* a stop less than a minute after the start wrote the reading itself
C2_Witness ==
    /\ AcceptedStop
    /\ LET e == store[Len(store)] IN
          /\ e.start < clock
          /\ clock < e.start + Minute
          /\ e.end = <<clock>>

\* C3: a stop whose reading is at or before the start of the open entry is
\* accepted and closes the entry with end = start + 1 minute.
C3_CoercedClose ==
    [][ (command' = "stop_entry" /\ find_open(store) # 0
            /\ clock <= store[find_open(store)].start) =>
          LET i == find_open(store) IN
          /\ dialog' = "none"
          /\ store'[i].end = <<store[i].start + Minute>> ]_vars

\* a stop ran with the clock behind the start of the entry it closed
C3_Witness ==
    /\ AcceptedStop
    /\ LET e == store[Len(store)] IN
          /\ clock < e.start
          /\ e.end = <<e.start + Minute>>

\* C4: every persisted entry with an end has end > start.
C4_EndAfterStart ==
    \A i \in 1..Len(store) :
        HasEnd(store[i]) => store[i].end[1] > store[i].start

\* an entry was closed while the clock showed exactly its start
C4_Witness ==
    /\ AcceptedStop
    /\ LET e == store[Len(store)] IN
          /\ clock = e.start
          /\ HasEnd(e)

\* C5: a start issued while the store holds an open entry is rejected and
\* leaves the persisted sequence unchanged; the rejection is "already
\* running" for every input that passes the description check.
C5_StartWhileRunning ==
    [][ (command' = "start_entry" /\ OpenIndices(store) # {}) =>
          /\ store' = store
          /\ dialog' # "none"
          /\ ~IsBlankInput(entry_text) =>
                dialog' = "An entry is already running." ]_vars

\* a start with a description was refused while an entry was open
C5_Witness ==
    /\ command = "start_entry"
    /\ dialog = "An entry is already running."
    /\ ~IsBlankInput(entry_text)
    /\ OpenIndices(store) # {}

\* C6: a stop issued while the store holds no open entry is rejected
\* ("nothing running"), write_entries is not called and the persisted
\* sequence is unchanged.
C6_StopWhileIdle ==
    [][ (command' = "stop_entry" /\ OpenIndices(store) = {}) =>
          /\ store' = store
          /\ dialog' = "No active entry to stop."
          /\ "write_entries" \notin Range(calls') ]_vars

\* a stop was refused on a store that holds closed entries only
C6_Witness ==
    /\ command = "stop_entry"
    /\ dialog = "No active entry to stop."
    /\ Len(store) >= 1
    /\ OpenIndices(store) = {}

\* C7: a start with a description, issued while no entry is open, appends
\* exactly one entry (start = the clock reading, no end, text = the stripped
\* input), keeps every earlier entry, and leaves the new entry open.
C7_StartAppends ==
    [][ (command' = "start_entry" /\ ~IsBlankInput(entry_text)
            /\ OpenIndices(store) = {}) =>
          /\ Len(store') = Len(store) + 1
          /\ SubSeq(store', 1, Len(store)) = store
          /\ LET e == store'[Len(store')] IN
                /\ e.start = clock
                /\ e.end = <<>>
                /\ IsStripped(e.text, entry_text)
          /\ OpenIndices(store') = {Len(store')} ]_vars

\* a start was accepted after an earlier entry had been closed
C7_Witness ==
    /\ AcceptedStart
    /\ Len(store) >= 2
    /\ HasEnd(store[1])
    /\ store[Len(store)] = Entry(clock, <<>>, <<"b", " ", "b">>)

\* C8: an accepted stop changes the open entry alone: its end goes from
\* absent to present, its start and text stay, the length and all other
\* entries stay, and no entry is open afterwards.
C8_StopFrame ==
    [][ (command' = "stop_entry" /\ dialog' = "none") =>
          LET i == find_open(store) IN
          /\ i # 0
          /\ Len(store') = Len(store)
          /\ \A j \in 1..Len(store) : j # i => store'[j] = store[j]
          /\ store'[i].start = store[i].start
          /\ store'[i].text = store[i].text
          /\ ~HasEnd(store[i])
          /\ HasEnd(store'[i])
          /\ OpenIndices(store') = {} ]_vars

\* the second of two entries was closed
C8_Witness ==
    /\ AcceptedStop
    /\ Len(store) >= 2
    /\ OpenIndices(store) = {}

\* C9: no step shortens the persisted sequence, changes the start or text
\* of an entry, or changes or removes an end that is present.
C9_AppendOnly ==
    [][ /\ Len(store') >= Len(store)
        /\ \A i \in 1..Len(store) :
              /\ store'[i].start = store[i].start
              /\ store'[i].text = store[i].text
              /\ HasEnd(store[i]) => store'[i].end = store[i].end ]_vars

\* a refresh ran over a log of two closed entries
C9_Witness ==
    /\ command = "refresh"
    /\ Len(store) >= 2
    /\ OpenIndices(store) = {}

\* C10: every persisted entry has a text that is not empty, and a start
\* whose input is empty or whitespace is rejected without a storage call
\* and without a change of the persisted sequence, open entry or not.
C10_TextNeverEmpty ==
    /\ [](\A i \in 1..Len(store) : store[i].text # <<>>)
    /\ [][ (command' = "start_entry" /\ IsBlankInput(entry_text)) =>
             /\ store' = store
             /\ calls' = <<>>
             /\ dialog' = "Please enter a description." ]_vars

\* a whitespace-only start was refused while an entry was open
C10_Witness ==
    /\ command = "start_entry"
    /\ dialog = "Please enter a description."
    /\ entry_text # <<>>
    /\ OpenIndices(store) # {}

----------------------------------------------------------------------------
(* Claims on the views *)

\* the window the summary of the last refresh was computed for
Window == today_window(refresh_now, zone)

\* the total the summary of the last refresh shows
Total == daily_total(entries, refresh_now, Window)

Perms(n) == {p \in [1..n -> 1..n] : \A i, j \in 1..n : p[i] = p[j] => i = j}

Permuted(es, p) == [i \in 1..Len(es) |-> es[p[i]]]

RemoveAt(es, i) == SubSeq(es, 1, i - 1) \o SubSeq(es, i + 1, Len(es))

\* two entries share more than an instant
Overlap(e, f, now) ==
    Max(e.start, f.start) < Min(end_or(e, now), end_or(f, now))

\* C11: for a fixed now and window, the daily total of render_summary is the
\* same for every permutation of the entry sequence.
C11_OrderIndependent ==
    \A p \in Perms(Len(entries)) :
        daily_total(Permuted(entries, p), refresh_now, Window) = Total

\* two different entries that overlap, one of them open and one of them
\* adding nothing to the total
C11_Witness ==
    /\ command = "refresh"
    /\ Len(entries) = 2
    /\ entries[1] # entries[2]
    /\ OpenIndices(entries) # {}
    /\ Overlap(entries[1], entries[2], refresh_now)
    /\ clipped(entries[1], refresh_now, Window) = 0
    /\ Total > 0

\* C12: an entry whose interval [start, end or now] lies outside the window
\* adds exactly zero to the daily total, and an entry with window start <=
\* start < end or now <= window end adds exactly (end or now) - start.
C12_OutsideAndInside ==
    \A i \in 1..Len(entries) :
        LET e == entries[i]
            stop == end_or(e, refresh_now)
            added == Total - daily_total(RemoveAt(entries, i), refresh_now,
                                         Window)
        IN /\ (stop <= Window[1] \/ e.start >= Window[2]) => added = 0
           /\ (Window[1] <= e.start /\ e.start < stop /\ stop <= Window[2])
                 => added = stop - e.start

\* a log with one entry outside the window and one inside it
C12_Witness ==
    /\ command = "refresh"
    /\ Len(entries) = 2
    /\ entries[1].start >= Window[2]
    /\ Window[1] <= entries[2].start
    /\ entries[2].start < end_or(entries[2], refresh_now)
    /\ end_or(entries[2], refresh_now) <= Window[2]

\* C13: the remaining value shown is max(target - total, 0); it is never
\* negative and is zero whenever the total reaches the 8-hour target.
C13_RemainingClamped ==
    /\ summary_label[2] = format_hhmm(Max(8 * Hour - Total, 0))
    /\ remaining(Total) >= 0
    /\ Total >= 8 * Hour => remaining(Total) = 0

\* overlapping entries took the total of one day above eight hours
C13_Witness ==
    /\ command = "refresh"
    /\ Len(entries) = 2
    /\ Overlap(entries[1], entries[2], refresh_now)
    /\ Total > 8 * Hour
    /\ clipped(entries[1], refresh_now, Window) <= 8 * Hour
    /\ clipped(entries[2], refresh_now, Window) <= 8 * Hour

\* the first local midnight after the instant t, for a constant offset
NextMidnight(t, offset) == ((t + offset) \div Day + 1) * Day - offset

\* the entry runs over exactly one local midnight
SpansMidnight(e, now, offset) ==
    LET M == NextMidnight(e.start, offset)
    IN M < end_or(e, now) /\ end_or(e, now) <= M + Day

\* C14: with a constant local offset, an entry that spans the local midnight
\* M adds M - start to the day of its start and end - M to the next day, the
\* two add up to its duration, and the two day windows meet at M.
C14_MidnightSplit ==
    zone.before = zone.after =>
        \A i \in 1..Len(entries) :
            LET e == entries[i]
                stop == end_or(e, refresh_now)
                M == NextMidnight(e.start, zone.after)
                first == today_window(e.start, zone)
                second == today_window(M, zone)
            IN SpansMidnight(e, refresh_now, zone.after) =>
                  /\ first = <<M - Day, M>>
                  /\ second = <<M, M + Day>>
                  /\ clipped(e, refresh_now, first) = M - e.start
                  /\ clipped(e, refresh_now, second) = stop - M
                  /\ clipped(e, refresh_now, first)
                        + clipped(e, refresh_now, second) = stop - e.start

\* a closed entry spans the midnight of a zone that is not UTC
C14_Witness ==
    /\ command = "refresh"
    /\ zone.before = zone.after
    /\ zone.after # 0
    /\ \E i \in 1..Len(entries) :
          /\ entries[i].end # <<>>
          /\ SpansMidnight(entries[i], refresh_now, zone.after)

\* the instant at which the local day d begins
LocalMidnight(z, d) ==
    CHOOSE t \in {d * Day - z.before, d * Day - z.after} :
        t + utcoffset(z, t) = d * Day

\* C15: today_window returns the local midnights that bound the local day
\* of now, each converted with the offset in force at that midnight; it is
\* not a 24-hour span when the offset changes during the day.
C15_TrueMidnights ==
    LET d == (refresh_now + utcoffset(zone, refresh_now)) \div Day
    IN Window = <<LocalMidnight(zone, d), LocalMidnight(zone, d + 1)>>

DigitValue(c) == CHOOSE n \in 0..9 : Digit(n) = c

IsDigits(t) ==
    /\ t # <<>>
    /\ \A i \in 1..Len(t) : \E n \in 0..9 : Digit(n) = t[i]

\* the number a string of digits denotes
RECURSIVE ParseNat(_)
ParseNat(t) ==
    IF t = <<>> THEN 0
    ELSE ParseNat(SubSeq(t, 1, Len(t) - 1)) * 10 + DigitValue(t[Len(t)])

Before(t, sep) == SubSeq(t, 1, (CHOOSE i \in 1..Len(t) : t[i] = sep) - 1)

After(t, sep) ==
    SubSeq(t, (CHOOSE i \in 1..Len(t) : t[i] = sep) + 1, Len(t))

\* "<H>h<MM>m" read back as <<H, MM>>
ReadLong(t) ==
    <<ParseNat(Before(t, "h")), ParseNat(Before(After(t, "h"), "m"))>>

\* "<HH>:<MM>" read back as <<HH, MM>>
ReadClock(t) == <<ParseNat(Before(t, ":")), ParseNat(After(t, ":"))>>

\* C16: for a duration d >= 0 in whole seconds, format_duration and
\* format_hhmm both show H = d div 3600 and M = (d mod 3600) div 60, with
\* 0 <= M <= 59 and 60*H + M = d div 60, and so agree on H and M.
C16_FormattersFloor ==
    LET d == duration(entries[1], refresh_now)
        long == status_label[3]
        short == summary_label[1]
        H == d \div 3600
        M == (d % 3600) \div 60
    IN /\ d >= 0
       /\ d = Total
       /\ long = format_duration(d)
       /\ short = format_hhmm(d)
       /\ IsDigits(Before(long, "h"))
       /\ IsDigits(Before(After(long, "h"), "m"))
       /\ After(long, "m") = <<>>
       /\ IsDigits(Before(short, ":"))
       /\ IsDigits(After(short, ":"))
       /\ ReadLong(long) = <<H, M>>
       /\ ReadClock(short) = <<H, M>>
       /\ 0 <= M /\ M <= 59
       /\ 60 * H + M = d \div 60

\* a duration one second short of a full minute and of a full hour drawn
C16_Witness ==
    /\ command = "refresh"
    /\ refresh_now = 2 * Hour - 1
    /\ status_label[3] = <<"1", "h", "5", "9", "m">>
    /\ summary_label[1] = <<"0", "1", ":", "5", "9">>

----------------------------------------------------------------------------
(* Claims on the application as a whole *)

\* C17: for every entry of the list and the now that refresh hands to
\* render_status and format_entry_line, (end or now) - start is not
\* negative; the elapsed time shown for the running entry is not negative.
C17_DurationsNonNegative ==
    /\ \A i \in 1..Len(entries) : duration(entries[i], refresh_now) >= 0
    /\ status_label[1] = "running" => status_label[3][1] # "-"

\* C18: between handlers the cached list equals the persisted sequence, and
\* start_entry and stop_entry accept or reject by what a fresh read of the
\* store holds.
C18_CacheIsStore ==
    /\ [](entries = store)
    /\ [][ /\ (command' = "start_entry" /\ ~IsBlankInput(entry_text)) =>
                /\ calls'[1] = "read_entries"
                /\ dialog' = "none" <=> OpenIndices(store) = {}
           /\ command' = "stop_entry" =>
                /\ calls'[1] = "read_entries"
                /\ dialog' = "none" <=> OpenIndices(store) # {} ]_vars

\* the list drawn after an accepted stop is the log with the entry closed
C18_Witness ==
    /\ AcceptedStop
    /\ Len(entries) >= 1
    /\ entries = store
    /\ OpenIndices(entries) = {}

\* C19: in every state reached by timer firings and start/stop commands,
\* exactly one refresh callback is pending.
C19_OneCallbackPending == pending = 1

\* C20: when the read, the find_open test and the append of two actors'
\* start_entry interleave, a persisted state with two open entries is
\* reachable; when each start_entry is one atomic step, none is.
C20_AtomicKeepsSingleOpen ==
    atomic => Cardinality(OpenIndices(store)) <= 1

\* both actors read the empty store before either appended: two open entries
C20_Witness ==
    /\ ~atomic
    /\ \A a \in Actors : actors[a].pc = "idle"
    /\ Len(store) = 2
    /\ Cardinality(OpenIndices(store)) = 2

====
